---- MODULE Spec2Model ----
(***************************************************************************)
(* Model of src/streamlit_using_grok_api.py (class CodeStandardizerApp).   *)
(*                                                                         *)
(* A Python str is a sequence of symbols; a symbol is one character        *)
(* (backtick, " ", "\n") or an indivisible run of other characters. Python  *)
(* values carry their type, because several statements of the source       *)
(* depend on it (a method looked up on a list, truthiness of None).        *)
(* A call is modelled with Python's argument binding, and a function       *)
(* result is either a returned value or a raised exception.                *)
(***************************************************************************)
EXTENDS Integers, Sequences, FiniteSets, TLC

\* session_state: st.session_state, a mapping from keys to values
\* page:    the page the last script run drew ("none" before the first run)
\* action:  what the last step was (a button press, a visit, a method call)
\* inp:     the widget values of the last run, and what the endpoint and the
\*          child process were going to answer in it
\* outcome: the exception that ended the last step, "" when none did
\* ui:      the messages the last step showed
\* prompts: the requests the last step sent to the completion endpoint
\* effects: the temporary directories, file writes and processes of the last step
\* result, again: what a method called on its own returned or raised, and
\*          what clean_code_block gave when applied to its own result
VARIABLES session_state, page, action, inp, outcome, ui, prompts, effects, result, again

vars == <<session_state, page, action, inp, outcome, ui, prompts, effects, result, again>>

\* ------------------------------------------------------------------ bounds
\* most lines of a text handed to clean_code_block
MaxLines == 3

\* ------------------------------------------------------------ Python values
Str(s) == [type |-> "str", val |-> s]
List(l) == [type |-> "list", val |-> l]
None == [type |-> "NoneType", val |-> <<>>]

Ret(v) == [exc |-> "", ret |-> v]
Raise(e) == [exc |-> e, ret |-> None]

Range(s) == {s[i] : i \in 1..Len(s)}
Contains(s, sym) == sym \in Range(s)

\* bool(x) of a str, a list or None
Truthy(v) == v.type # "NoneType" /\ v.val # <<>>

\* self.supported_languages, set in __init__: a list, not the selected language
supported_languages == List(<<"python", "javascript", "java", "C", "C++">>)

\* ------------------------------------------------------------- str methods
Whitespace == {" ", "\n"}
\* the backtick character, as one symbol
Backtick == "bt"
\* the three backticks of a Markdown code fence
Fence == <<Backtick, Backtick, Backtick>>

StartsWith(s, p) == Len(s) >= Len(p) /\ SubSeq(s, 1, Len(p)) = p

RECURSIVE LStrip(_, _)
LStrip(s, chars) ==
    IF s # <<>> /\ Head(s) \in chars THEN LStrip(Tail(s), chars) ELSE s

RECURSIVE RStrip(_, _)
RStrip(s, chars) ==
    IF s # <<>> /\ s[Len(s)] \in chars THEN RStrip(SubSeq(s, 1, Len(s) - 1), chars) ELSE s

Strip(s, chars) == RStrip(LStrip(s, chars), chars)

\* index of the first line break of s, 0 when there is none
FirstBreak(s) ==
    IF \E i \in 1..Len(s) : s[i] = "\n"
    THEN CHOOSE i \in 1..Len(s) : s[i] = "\n" /\ \A j \in 1..(i - 1) : s[j] # "\n"
    ELSE 0

RECURSIVE SplitLines(_)
SplitLines(s) ==
    IF s = <<>> THEN <<>>
    ELSE LET i == FirstBreak(s)
         IN IF i = 0 THEN <<s>>
            ELSE <<SubSeq(s, 1, i - 1)>> \o SplitLines(SubSeq(s, i + 1, Len(s)))

RECURSIVE Join(_, _)
Join(lines, sep) ==
    IF lines = <<>> THEN <<>>
    ELSE IF Len(lines) = 1 THEN lines[1]
    ELSE lines[1] \o sep \o Join(Tail(lines), sep)

LowerSym(c) ==
    CASE c = "Python" -> "python"
      [] c = "C" -> "c"
      [] c = "C++" -> "c++"
      [] OTHER -> c

\* x.lower(): str has the method, a list has not
MethodLower(v) ==
    IF v.type = "str"
    THEN Ret(Str([i \in 1..Len(v.val) |-> LowerSym(v.val[i])]))
    ELSE Raise("AttributeError")

\* the apostrophe character, as one symbol
Apos == "apos"

\* repr of a list of str, as an f-string formats it
RECURSIVE ListItems(_)
ListItems(l) ==
    IF l = <<>> THEN <<>>
    ELSE <<Apos, l[1], Apos>> \o (IF Len(l) > 1 THEN <<",", " ">> ELSE <<>>) \o ListItems(Tail(l))

\* "{v}" inside an f-string
Fmt(v) ==
    CASE v.type = "str" -> v.val
      [] v.type = "list" -> <<"[">> \o ListItems(v.val) \o <<"]">>
      [] OTHER -> <<"None">>

\* --------------------------------------------------------- argument binding
\* Binding of a call's positional and keyword arguments to the parameters
\* after self; the first nreq parameters have no default, the others default
\* to None.
Bind(params, nreq, pos, kw) ==
    IF Len(pos) > Len(params) THEN [exc |-> "TypeError", args |-> <<>>]
    ELSE IF \E i \in 1..Len(pos) : params[i] \in DOMAIN kw
    THEN [exc |-> "TypeError", args |-> <<>>]
    ELSE IF \E k \in DOMAIN kw : k \notin Range(params)
    THEN [exc |-> "TypeError", args |-> <<>>]
    ELSE IF \E i \in 1..nreq : i > Len(pos) /\ params[i] \notin DOMAIN kw
    THEN [exc |-> "TypeError", args |-> <<>>]
    ELSE [exc |-> "",
          args |-> [p \in Range(params) |->
                       LET i == CHOOSE j \in 1..Len(params) : params[j] = p
                       IN IF i <= Len(pos) THEN pos[i]
                          ELSE IF p \in DOMAIN kw THEN kw[p]
                          ELSE None]]

NoKw == [k \in {} |-> None]

clean_code_block_params == <<"code">>
call_llm_params == <<"system_prompt", "user_code", "coding_doc", "user_prompt">>
run_tests_params == <<"code_str", "test_str">>

\* ------------------------------------------------------- clean_code_block
clean_code_block(a) ==
    LET code == a["code"]
    IN IF code.type # "str" THEN Raise("AttributeError")
       ELSE IF StartsWith(code.val, Fence)
       THEN LET lines == SplitLines(Strip(code.val, Whitespace))
                tag == MethodLower(Str(Strip(lines[1], {Backtick})))
                langs == MethodLower(supported_languages)
            IN IF langs.exc # "" THEN Raise(langs.exc)
               ELSE LET l1 == IF tag.ret = langs.ret THEN Tail(lines) ELSE lines
                        l2 == IF l1 # <<>> /\ Strip(l1[Len(l1)], Whitespace) = Fence
                              THEN SubSeq(l1, 1, Len(l1) - 1)
                              ELSE l1
                    IN Ret(Str(Join(l2, <<"\n">>)))
       ELSE Ret(code)

\* ---------------------------------------------------------------- call_llm
\* the fixed instructional template appended to every prompt (lines 40-48)
Template ==
    <<"\n", "You are a professional software engineer. You will be provided with code in ">>
    \o Fmt(supported_languages)
    \o <<" and optionally coding standards. ", "\n",
         "Your task is to generate standardized code and/or test cases.", "\n", "\n",
         "Instructions:", "\n", "1. Return only ">>
    \o Fmt(supported_languages)
    \o <<" code. No markdown, no extra text.", "\n",
         "2. If coding standards are provided, follow them strictly.", "\n",
         "3. Ensure the code can run without modification.", "\n">>

full_user_prompt(a) ==
    (IF Truthy(a["coding_doc"])
     THEN <<"### ", "Coding standards:", "\n">> \o Fmt(a["coding_doc"]) \o <<"\n", "\n">>
     ELSE <<>>)
    \o (IF Truthy(a["user_prompt"]) THEN Fmt(a["user_prompt"]) \o <<"\n", "\n">> ELSE <<>>)
    \o <<"### ", "User code in ">> \o Fmt(supported_languages) \o <<":", "\n">>
    \o Fmt(a["user_code"]) \o <<"\n", "\n">>
    \o Template

\* One answer of the completion endpoint to one request: the request raises,
\* or it returns a response holding a list of completions.
ApiRaises(api) == api.kind = "raise"

\* response.choices[0].message.content, inside the try block
FirstChoice(api) ==
    IF ApiRaises(api) THEN Raise("APIError")
    ELSE IF api.choices = <<>> THEN Raise("IndexError")
    ELSE Ret(api.choices[1])

\* a call_llm that tries the request a second time when it fails
call_llm_retry(a, api) ==
    LET got == FirstChoice(api)
    IN IF got.exc = ""
       THEN [exc |-> "", ret |-> got.ret, prompts |-> <<full_user_prompt(a)>>, ui |-> {}]
       ELSE [exc |-> "", ret |-> Str(<<>>),
             prompts |-> <<full_user_prompt(a), full_user_prompt(a)>>,
             ui |-> {"error: LLM API Error"}]

\* prompts: the requests sent to the endpoint, in order; ui: what st.error showed
call_llm(a, api) ==
    LET got == FirstChoice(api)
    IN IF got.exc = ""
       THEN [exc |-> "", ret |-> got.ret, prompts |-> <<full_user_prompt(a)>>, ui |-> {}]
       ELSE [exc |-> "", ret |-> Str(<<>>), prompts |-> <<full_user_prompt(a)>>,
             ui |-> {"error: LLM API Error"}]

\* --------------------------------------------------------------- run_tests
NoEffects == [tempdirs |-> 0, writes |-> 0, spawns |-> 0]

\* proc: the captured stdout and stderr of the child process
run_tests(a, proc) ==
    LET lang == MethodLower(supported_languages)
    IN IF lang.exc # ""
       THEN [exc |-> lang.exc, ret |-> None,
             effects |-> [tempdirs |-> 1, writes |-> 0, spawns |-> 0]]
       ELSE IF lang.ret = Str(<<"python">>)
       THEN [exc |-> "", ret |-> Str(proc.stdout \o proc.stderr),
             effects |-> [tempdirs |-> 1, writes |-> 2, spawns |-> 1]]
       ELSE IF lang.ret = Str(<<"javascript">>)
       THEN [exc |-> "", ret |-> Str(proc.stdout \o proc.stderr),
             effects |-> [tempdirs |-> 1, writes |-> 3, spawns |-> 1]]
       ELSE [exc |-> "",
             ret |-> Str(<<"Language ", Apos>> \o Fmt(supported_languages)
                         \o <<Apos, " is not supported yet.">>),
             effects |-> [tempdirs |-> 1, writes |-> 0, spawns |-> 0]]

\* ------------------------------------------------------------ method calls
\* self.clean_code_block(*pos): the arguments are bound, then the body runs
self_clean_code_block(pos) ==
    LET b == Bind(clean_code_block_params, 1, pos, NoKw)
    IN IF b.exc # "" THEN Raise(b.exc) ELSE clean_code_block(b.args)

\* self.call_llm(*pos, **kw)
self_call_llm(pos, kw, api) ==
    LET b == Bind(call_llm_params, 2, pos, kw)
    IN IF b.exc # "" THEN [exc |-> b.exc, ret |-> None, prompts |-> <<>>, ui |-> {}]
       ELSE call_llm(b.args, api)

\* self.run_tests(*pos)
self_run_tests(pos, proc) ==
    LET b == Bind(run_tests_params, 2, pos, NoKw)
    IN IF b.exc # "" THEN [exc |-> b.exc, ret |-> None, effects |-> NoEffects]
       ELSE run_tests(b.args, proc)

\* ---------------------------------------------------------- session state
\* st.session_state[key]
GetItem(ss, key) == IF key \in DOMAIN ss THEN Ret(ss[key]) ELSE Raise("KeyError")

\* st.session_state[key] = value
SetItem(ss, key, value) == [k \in DOMAIN ss \cup {key} |-> IF k = key THEN value ELSE ss[k]]

\* What one script run leaves behind: the session state, the page drawn, the
\* exception that ended the run ("" when none), the messages shown, the
\* requests sent to the completion endpoint and the files and processes used.
Shown(ss, pg, exc, shown, sent, eff) ==
    [ss |-> ss, page |-> pg, exc |-> exc, ui |-> shown, prompts |-> sent, effects |-> eff]

\* the widgets of a page nobody has typed into
EmptyStr == Str(<<>>)
NoFile == [kind |-> "none", text |-> <<>>]
BlankForm ==
    [email |-> EmptyStr, password |-> EmptyStr, language |-> Str(<<"python">>),
     system_prompt |-> EmptyStr, user_prompt |-> EmptyStr, uploaded |-> NoFile,
     user_code |-> EmptyStr]

\* -------------------------------------------------------------- render_app
\* lines 107-112: the uploaded document decoded as UTF-8, None when there is
\* none or it does not decode
coding_doc_content(f) == IF f.uploaded.kind = "text" THEN Str(f.uploaded.text) ELSE None

UploadErrors(f) ==
    IF f.uploaded.kind = "binary" THEN {"error: could not read uploaded file"} ELSE {}

\* line 118, with the operands joined by "and"
MissingInputBoth(user_code, system_prompt) == ~Truthy(user_code) /\ ~Truthy(system_prompt)

\* line 118
MissingInput(user_code, system_prompt) == ~Truthy(user_code) \/ ~Truthy(system_prompt)

\* lines 122-126, given what line 121 returned
StandardizeStore(ss, f, raw, clean) ==
    IF clean.exc # ""
    THEN Shown(ss, "app", clean.exc, UploadErrors(f) \cup raw.ui, raw.prompts, NoEffects)
    ELSE Shown(SetItem(ss, "standardized_code", clean.ret), "app", "",
               UploadErrors(f) \cup raw.ui \cup {"code: standardized code"},
               raw.prompts, NoEffects)

\* lines 121-126, given the outcome of the call of line 121
StandardizeSanitize(ss, f, raw) ==
    IF raw.exc # ""
    THEN Shown(ss, "app", raw.exc, UploadErrors(f), raw.prompts, NoEffects)
    ELSE StandardizeStore(ss, f, raw, self_clean_code_block(<<raw.ret, f.language>>))

\* lines 117-126
Standardize(ss, f, api) ==
    IF MissingInput(f.user_code, f.system_prompt)
    THEN Shown(ss, "app", "", UploadErrors(f) \cup {"warning: provide both code and system prompt"},
               <<>>, NoEffects)
    ELSE StandardizeSanitize(ss, f,
             self_call_llm(<<f.system_prompt, f.user_code, f.language>>,
                           ("coding_doc" :> coding_doc_content(f))
                               @@ ("user_prompt" :> f.user_prompt),
                           api))

\* line 129, never true
NoStoredCodeNever(ss) == FALSE

\* line 129
NoStoredCode(ss) == "standardized_code" \notin DOMAIN ss

\* line 132
test_prompt(f, stored) ==
    Str(<<"Generate test cases in ">> \o Fmt(f.language)
        \o <<" to validate the functionality of the following code:", "\n", "\n">>
        \o Fmt(stored))

\* lines 140-142, given the outcome of the call of line 141
GenerateReport(ss, f, raw, t) ==
    Shown(ss, "app", t.exc,
          UploadErrors(f) \cup raw.ui \cup {"code: test cases"}
              \cup (IF t.exc = "" THEN {"text: test execution report"} ELSE {}),
          raw.prompts, t.effects)

\* lines 135-142, given what line 134 and line 135 returned
GenerateRun(ss, f, stored, raw, clean, proc) ==
    IF clean.exc # ""
    THEN Shown(ss, "app", clean.exc, UploadErrors(f) \cup raw.ui, raw.prompts, NoEffects)
    ELSE GenerateReport(ss, f, raw, self_run_tests(<<stored, clean.ret, f.language>>, proc))

\* lines 134-142, given the outcome of the call of line 134
GenerateSanitize(ss, f, stored, raw, proc) ==
    IF raw.exc # ""
    THEN Shown(ss, "app", raw.exc, UploadErrors(f), raw.prompts, NoEffects)
    ELSE GenerateRun(ss, f, stored, raw, self_clean_code_block(<<raw.ret, f.language>>), proc)

\* lines 132-142, given what reading st.session_state["standardized_code"] gave
GenerateCall(ss, f, stored, api, proc) ==
    IF stored.exc # ""
    THEN Shown(ss, "app", stored.exc, UploadErrors(f), <<>>, NoEffects)
    ELSE GenerateSanitize(ss, f, stored.ret,
             self_call_llm(<<f.system_prompt, stored.ret, f.language>>,
                           ("user_prompt" :> test_prompt(f, stored.ret)), api),
             proc)

\* lines 131-142: the else branch of the "Generate & Run Tests" button
GenerateTests(ss, f, api, proc) ==
    GenerateCall(ss, f, GetItem(ss, "standardized_code"), api, proc)

\* lines 128-142
GenerateAndRun(ss, f, api, proc) ==
    IF NoStoredCode(ss)
    THEN Shown(ss, "app", "", UploadErrors(f) \cup {"warning: generate the standardized code first"},
               <<>>, NoEffects)
    ELSE GenerateTests(ss, f, api, proc)

\* button: the button pressed in this run, "none" when the run has another cause
render_app(ss, button, f, api, proc) ==
    IF button = "Standardize" THEN Standardize(ss, f, api)
    ELSE IF button = "Generate" THEN GenerateAndRun(ss, f, api, proc)
    ELSE Shown(ss, "app", "", UploadErrors(f), <<>>, NoEffects)

\* ------------------------------------------------------------------- login
\* line 150, with the operands joined by "or"
LoginAcceptsEither(email, password) == Truthy(email) \/ Truthy(password)

\* line 150
LoginAccepts(email, password) == Truthy(email) /\ Truthy(password)

\* lines 144-155; st.rerun() starts the script again, which then draws the
\* main page with its widgets untouched
login(ss, button, f, api, proc) ==
    IF button = "Login"
    THEN IF LoginAccepts(f.email, f.password)
         THEN render_app(SetItem(SetItem(ss, "logged_in", TRUE), "user_email", f.email),
                         "none", BlankForm, api, proc)
         ELSE Shown(ss, "login", "", {"warning: enter both email and password"}, <<>>, NoEffects)
    ELSE Shown(ss, "login", "", {}, <<>>, NoEffects)

\* --------------------------------------------------------------------- run
\* lines 157-164
run(ss, button, f, api, proc) ==
    LET ss1 == IF "logged_in" \notin DOMAIN ss THEN SetItem(ss, "logged_in", FALSE) ELSE ss
    IN IF ~ss1["logged_in"]
       THEN login(ss1, button, f, api, proc)
       ELSE render_app(ss1, button, f, api, proc)

\* ------------------------------------------------------------------ inputs
Emails == {EmptyStr, Str(<<"ann@example.org">>)}
Passwords == {EmptyStr, Str(<<"secret">>)}
\* the options of the language selectbox (line 98)
Languages == {Str(<<supported_languages.val[i]>>) : i \in 1..Len(supported_languages.val)}
SystemPrompts == {EmptyStr, Str(<<"Follow PEP 8.">>)}
UserPrompts == {EmptyStr, Str(<<"Keep the names.">>)}
Uploads == {NoFile, [kind |-> "text", text |-> <<"Indent with four spaces.">>],
            [kind |-> "binary", text |-> <<>>]}
UserCodes == {EmptyStr, Str(<<"def f():", "\n", " ", "return 1">>)}

LoginForms == {[BlankForm EXCEPT !.email = e, !.password = pw] : e \in Emails, pw \in Passwords}
AppForms ==
    {[BlankForm EXCEPT !.language = l, !.system_prompt = sp, !.user_prompt = up,
                       !.uploaded = u, !.user_code = c] :
        l \in Languages, sp \in SystemPrompts, up \in UserPrompts, u \in Uploads, c \in UserCodes}

\* texts a completion may hold
PlainCompletion == Str(<<"x=1">>)
FencedCompletion == Str(Fence \o <<"python", "\n", "x=1", "\n">> \o Fence)
\* what the completion endpoint may answer to a request
ApiOutcomes ==
    {[kind |-> "raise", choices |-> <<>>],
     [kind |-> "resp", choices |-> <<>>],
     [kind |-> "resp", choices |-> <<PlainCompletion>>],
     [kind |-> "resp", choices |-> <<FencedCompletion, PlainCompletion>>]}
\* the environment of a run that neither calls the endpoint nor starts a process
NoApi == [kind |-> "unused", choices |-> <<>>]
NoProc == [stdout |-> <<>>, stderr |-> <<>>]
ProcOutcomes == {[stdout |-> <<"OK", "\n">>, stderr |-> <<>>],
                 [stdout |-> <<>>, stderr |-> <<"AssertionError", "\n">>]}

\* lines of the texts handed to clean_code_block
LineKinds == {<<>>, Fence, Fence \o <<"python">>, Fence \o <<"Python">>, <<"print(1)">>,
              <<" ">> \o Fence}
Texts == {Str(Join(ls, <<"\n">>)) : ls \in UNION {[1..n -> LineKinds] : n \in 0..MaxLines}}

NoCall == Ret(None)

\* ------------------------------------------------------- the application
Init ==
    /\ session_state = [k \in {} |-> None]
    /\ page = "none"
    /\ action = "none"
    /\ inp = [form |-> BlankForm, api |-> NoApi, proc |-> NoProc]
    /\ outcome = ""
    /\ ui = {}
    /\ prompts = <<>>
    /\ effects = NoEffects
    /\ result = NoCall
    /\ again = NoCall

\* what a script run leaves in the session and on the page
Leaves(name, f, api, proc, r) ==
       /\ session_state' = r.ss
       /\ page' = r.page
       /\ action' = name
       /\ inp' = [form |-> f, api |-> api, proc |-> proc]
       /\ outcome' = r.exc
       /\ ui' = r.ui
       /\ prompts' = r.prompts
       /\ effects' = r.effects
       /\ result' = NoCall
       /\ again' = NoCall

\* one script run: app.run() from the top, with the widgets holding f
ScriptRun(name, button, f, api, proc) ==
    Leaves(name, f, api, proc, run(session_state, button, f, api, proc))

\* the forms that differ from f in one widget of the main page
EditedForms(f) ==
    {[f EXCEPT !.language = l] : l \in Languages}
    \cup {[f EXCEPT !.system_prompt = sp] : sp \in SystemPrompts}
    \cup {[f EXCEPT !.user_prompt = up] : up \in UserPrompts}
    \cup {[f EXCEPT !.uploaded = u] : u \in Uploads}
    \cup {[f EXCEPT !.user_code = c] : c \in UserCodes}

\* the page is opened, or the user edits a widget: a run in which no button
\* is pressed; the widgets keep their values from one run to the next
Visit ==
    \E f \in (IF page = "none" THEN {BlankForm}
              ELSE IF page = "login" THEN LoginForms
              ELSE EditedForms(inp.form)) :
        ScriptRun("Visit", "none", f, NoApi, NoProc)

PressLogin ==
    /\ page = "login"
    /\ ScriptRun("Login", "Login", inp.form, NoApi, NoProc)

PressStandardize ==
    /\ page = "app"
    /\ \E api \in ApiOutcomes : ScriptRun("Standardize", "Standardize", inp.form, api, NoProc)

PressGenerate ==
    /\ page = "app"
    /\ \E api \in ApiOutcomes, proc \in ProcOutcomes :
           ScriptRun("Generate", "Generate", inp.form, api, proc)

Next == Visit \/ PressLogin \/ PressStandardize \/ PressGenerate

Spec == Init /\ [][Next]_vars

\* ------------------------------------------- the methods, called one by one
\* Each action below calls one method of a freshly constructed
\* CodeStandardizerApp on inputs drawn from the sets above and records what it
\* returned or raised.  The methods keep nothing between two calls, so one
\* call per behaviour covers them.
Called(name, args, r, shown, sent, eff, r2) ==
    /\ action' = name
    /\ inp' = args
    /\ result' = [exc |-> r.exc, ret |-> r.ret]
    /\ again' = r2
    /\ outcome' = r.exc
    /\ ui' = shown
    /\ prompts' = sent
    /\ effects' = eff
    /\ UNCHANGED <<session_state, page>>

CodingDocs == {None, EmptyStr, Str(<<"Indent with four spaces.">>)}
OptionalPrompts == {None} \cup UserPrompts

\* what a call returned or raised
Outcome(r) == [exc |-> r.exc, ret |-> r.ret]

\* self.call_llm(system_prompt, user_code, coding_doc=..., user_prompt=...)
CallLlmWith(args, r) == Called("call_llm", args, Outcome(r), r.ui, r.prompts, NoEffects, NoCall)

CallLlm ==
    /\ action = "none"
    /\ \E sp \in SystemPrompts, code \in UserCodes, doc \in CodingDocs, up \in OptionalPrompts,
          api \in ApiOutcomes :
        CallLlmWith([system_prompt |-> sp, user_code |-> code, coding_doc |-> doc,
                     user_prompt |-> up, api |-> api],
                    self_call_llm(<<sp, code>>,
                                  ("coding_doc" :> doc) @@ ("user_prompt" :> up), api))

\* clean_code_block applied to what a first call returned
Again(r) == IF r.exc # "" THEN r ELSE self_clean_code_block(<<r.ret>>)

\* self.clean_code_block(code), and the same call on what it returned
CleanCodeBlockWith(args, r) ==
    Called("clean_code_block", args, r, {}, <<>>, NoEffects, Again(r))

CleanCodeBlock ==
    /\ action = "none"
    /\ \E code \in Texts : CleanCodeBlockWith([code |-> code], self_clean_code_block(<<code>>))

TestTexts == {Str(<<"assert f() == 1">>), EmptyStr}

\* self.run_tests(code, tests), and with the language as a third argument as
\* line 141 calls it
RunTestsWith(args, r) == Called("run_tests", args, Outcome(r), {}, <<>>, r.effects, NoCall)

RunTests ==
    /\ action = "none"
    /\ \E code \in UserCodes, tests \in TestTexts, l \in Languages, proc \in ProcOutcomes,
          n \in {2, 3} :
        RunTestsWith([code_str |-> code, test_str |-> tests, language |-> l, nargs |-> n,
                      proc |-> proc],
                     self_run_tests(SubSeq(<<code, tests, l>>, 1, n), proc))

StoredCodes == {PlainCompletion, EmptyStr, Str(<<"# ", "Coding standards:", " none">>)}

\* a logged-in session that holds a stored standardized code
SessionWith(stored) ==
    SetItem(SetItem([k \in {} |-> None], "logged_in", TRUE), "standardized_code", stored)

\* the "Generate & Run Tests" handler on a session that holds a stored string
GenerateWith(args, r) ==
    Called("generate", args, [exc |-> r.exc, ret |-> None], r.ui, r.prompts, r.effects, NoCall)

GenerateWithStoredCode ==
    /\ action = "none"
    /\ \E stored \in StoredCodes, f \in AppForms, api \in ApiOutcomes, proc \in ProcOutcomes :
        GenerateWith([form |-> f, stored |-> stored, api |-> api, proc |-> proc],
                     GenerateAndRun(SessionWith(stored), f, api, proc))

NextFn == CallLlm \/ CleanCodeBlock \/ RunTests \/ GenerateWithStoredCode

SpecFn == Init /\ [][NextFn]_vars

\* ================================================================== claims
LoggedIn(ss) == "logged_in" \in DOMAIN ss /\ ss["logged_in"] = TRUE
BothGiven(a, b) == a.val # <<>> /\ b.val # <<>>

\* C1: the main workflow page, and so every Standardize or Generate action, is
\* reached only with session_state["logged_in"] True; logged_in turns True only
\* in a Login press whose email and password are both non-empty; a Login press
\* with an empty email or password leaves logged_in False and user_email unset.
C1_LoginGatesWorkflow ==
    /\ [](page = "app" => LoggedIn(session_state))
    /\ [](action \in {"Standardize", "Generate"} => LoggedIn(session_state))
    /\ [][(~LoggedIn(session_state) /\ LoggedIn(session_state'))
            => (action' = "Login" /\ BothGiven(inp'.form.email, inp'.form.password))]_vars
    /\ [][(action' = "Login" /\ ~BothGiven(inp'.form.email, inp'.form.password))
            => (~LoggedIn(session_state') /\ "user_email" \notin DOMAIN session_state'
                /\ page' = "login")]_vars

\* a Login press with both fields given has opened the main page
C1_Witness ==
    /\ action = "Login"
    /\ BothGiven(inp.form.email, inp.form.password)
    /\ LoggedIn(session_state)
    /\ session_state["user_email"] = inp.form.email
    /\ page = "app"

\* C2: no user action ends in an uncaught exception.
C2_NoUncaughtException == outcome = ""

\* C3: after a Standardize action with non-empty code and system prompt, one
\* request has been sent and session_state["standardized_code"] holds the
\* sanitized model output (the completion itself when it carries no fence).
C3_StandardizeStores ==
    (action = "Standardize" /\ BothGiven(inp.form.user_code, inp.form.system_prompt))
        => /\ Len(prompts) = 1
           /\ "standardized_code" \in DOMAIN session_state
           /\ (inp.api.kind = "resp" /\ inp.api.choices # <<>>
               /\ ~StartsWith(inp.api.choices[1].val, Fence))
                 => session_state["standardized_code"] = inp.api.choices[1]

\* C4: a Standardize action with empty user code or empty system prompt sends
\* no request, shows a warning and leaves the session state as it was.
C4_MissingInputNoCall ==
    [][(action' = "Standardize" /\ ~BothGiven(inp'.form.user_code, inp'.form.system_prompt))
         => /\ prompts' = <<>>
            /\ outcome' = ""
            /\ "warning: provide both code and system prompt" \in ui'
            /\ effects' = NoEffects
            /\ session_state' = session_state]_vars

\* a Standardize press with a system prompt and no code has shown the warning
C4_Witness ==
    /\ action = "Standardize"
    /\ inp.form.user_code.val = <<>>
    /\ inp.form.system_prompt.val # <<>>
    /\ "warning: provide both code and system prompt" \in ui

\* C5: call_llm sends exactly one request per call; when the request succeeds
\* it returns the first completion, and when the request raises it shows the
\* error and returns the empty string; no exception leaves call_llm.
C5_OneRequestFailOpen ==
    action = "call_llm"
        => /\ Len(prompts) = 1
           /\ result.exc = ""
           /\ (inp.api.kind = "resp" /\ inp.api.choices # <<>>)
                => (result.ret = inp.api.choices[1] /\ ui = {})
           /\ inp.api.kind = "raise"
                => (result.ret = EmptyStr /\ ui = {"error: LLM API Error"})

\* a call whose request raised has returned the empty string
C5_Witness ==
    /\ action = "call_llm"
    /\ inp.api.kind = "raise"
    /\ result = Ret(EmptyStr)
    /\ Len(prompts) = 1

\* C6: for a selected language other than python and javascript, run_tests
\* returns a text holding the language name and "not supported", writes no
\* file and starts no process.
C6_UnsupportedLanguageMessage ==
    (action = "run_tests" /\ inp.language.val[1] \notin {"python", "javascript"})
        => /\ result.exc = ""
           /\ Contains(result.ret.val, inp.language.val[1])
           /\ Contains(result.ret.val, " is not supported yet.")
           /\ effects.writes = 0
           /\ effects.spawns = 0

\* the lines of a text, as the claims about the sanitizer read it
OpensWithTag(code) ==
    LET lines == SplitLines(code.val)
    IN Len(lines) >= 2 /\ \E l \in Languages : lines[1] = Fence \o l.val
ClosesWithFence(code) ==
    LET lines == SplitLines(code.val)
    IN Len(lines) >= 2 /\ lines[Len(lines)] = Fence
Between(code) ==
    LET lines == SplitLines(code.val)
    IN Str(Join(SubSeq(lines, 2, Len(lines) - 1), <<"\n">>))

\* C7: for a text that opens with a fence line tagged with a language and
\* closes with a fence line, clean_code_block returns the lines in between
\* joined by newlines; for a text that does not start with a fence it returns
\* the text unchanged.
C7_FenceStripped ==
    action = "clean_code_block"
        => /\ (OpensWithTag(inp.code) /\ ClosesWithFence(inp.code))
                => result = Ret(Between(inp.code))
           /\ ~StartsWith(inp.code.val, Fence) => result = Ret(inp.code)

\* number of lines of a text that are fence lines
FenceLineCount(code) ==
    LET lines == SplitLines(code.val)
    IN Cardinality({i \in 1..Len(lines) : StartsWith(Strip(lines[i], Whitespace), Fence)})

\* C8: for a text with at most one leading/trailing fence pair,
\* clean_code_block(clean_code_block(x)) equals clean_code_block(x).
C8_Idempotent ==
    (action = "clean_code_block" /\ FenceLineCount(inp.code) <= 2)
        => /\ result.exc = ""
           /\ again.exc = ""
           /\ again.ret = result.ret

C10_GenerateNeedsStoredCode ==
    /\ [][("standardized_code" \in DOMAIN session_state'
           /\ "standardized_code" \notin DOMAIN session_state)
            => action' = "Standardize"]_vars
    /\ [][action' = "Generate"
            => /\ (prompts' # <<>> \/ effects' # NoEffects)
                    => /\ "standardized_code" \in DOMAIN session_state
                       /\ \A i \in 1..Len(prompts') :
                            Range(session_state["standardized_code"].val)
                                \subseteq Range(prompts'[i])
               /\ "standardized_code" \notin DOMAIN session_state
                    => /\ "warning: generate the standardized code first" \in ui'
                       /\ outcome' = ""
                       /\ prompts' = <<>>
                       /\ effects' = NoEffects
                       /\ session_state' = session_state]_vars

\* a Generate press with nothing stored has shown the warning
C10_Witness ==
    /\ action = "Generate"
    /\ "standardized_code" \notin DOMAIN session_state
    /\ "warning: generate the standardized code first" \in ui
    /\ prompts = <<>>

====
